---- MODULE Spec2Model ----
(***************************************************************************)
(* Model of fakestore_analysis.py: one run of main() against a persistent  *)
(* SQLite store.  fetch_data, create_database, insert_data, analytics and  *)
(* plot_graphs are one action each; the SQL statements are operators over  *)
(* a store value.                                                          *)
(*                                                                         *)
(* Rows are projected onto the columns the queries group, join, sum or     *)
(* compare: products(id, category_id), ratings(product_id, rate, count),   *)
(* categories(id, name).  title and price are carried through the program  *)
(* untouched and never decide a branch, so they are left out; a product's  *)
(* title in a result row is represented by its id.  Rates are integers     *)
(* (tenths of a star), so "rate > AVG(rate)" is the exact comparison       *)
(* rate * n > sum.  Query 3 (top 5 by count) only prints and is not        *)
(* modelled.                                                               *)
(***************************************************************************)
EXTENDS Integers, Sequences, FiniteSets, TLC

\* ------------------------------------------------------------------------
\* Bounded inputs
\* ------------------------------------------------------------------------
MaxRecs == 3

ProductIds == {1, 2, 3}

CategoryNames == {"A", "B"}

RatingObjects ==
    { [rate |-> 3, count |-> 1],
      [rate |-> 4, count |-> 2],
      [rate |-> 5, count |-> 1] }

Records == [id : ProductIds, category : CategoryNames, rating : RatingObjects]

Inputs == UNION { [1..k -> Records] : k \in 0..MaxRecs }

TableNames == {"categories", "products", "ratings"}

\* ------------------------------------------------------------------------
\* Helpers
\* ------------------------------------------------------------------------
Range(s) == { s[i] : i \in DOMAIN s }

SetMin(S) == CHOOSE m \in S : \A x \in S : m <= x

RECURSIVE SortedSeq(_)
SortedSeq(S) ==
    IF S = {} THEN <<>>
    ELSE LET m == SetMin(S) IN <<m>> \o SortedSeq(S \ {m})

RECURSIVE SumCount(_)
SumCount(R) ==
    IF R = {} THEN 0
    ELSE LET r == CHOOSE x \in R : TRUE IN r.count + SumCount(R \ {r})

RECURSIVE SumRate(_)
SumRate(R) ==
    IF R = {} THEN 0
    ELSE LET r == CHOOSE x \in R : TRUE IN r.rate + SumRate(R \ {r})

\* ------------------------------------------------------------------------
\* The store: which tables exist, their rows, and the AUTOINCREMENT counter
\* of categories (sqlite_sequence).
\* ------------------------------------------------------------------------
NoTables ==
    [exists |-> {}, categories |-> {}, products |-> {}, ratings |-> {}, seq |-> 0]

EmptyTables ==
    [exists |-> TableNames, categories |-> {}, products |-> {}, ratings |-> {},
     seq |-> 0]

\* DROP TABLE IF EXISTS t (dropping categories also clears its sequence row)
DropTableIfExists_Skip(s, t) == s

DropTableIfExists(s, t) ==
    IF t \notin s.exists THEN s
    ELSE [ [s EXCEPT ![t] = {}] EXCEPT
             !.exists = @ \ {t},
             !.seq = IF t = "categories" THEN 0 ELSE @ ]

\* CREATE TABLE t: an error when t already exists
CreateTable(s, t) ==
    IF t \in s.exists
    THEN [store |-> s, ok |-> FALSE]
    ELSE [store |-> [ [s EXCEPT ![t] = {}] EXCEPT !.exists = @ \cup {t} ],
          ok |-> TRUE]

\* create_database: the drop script, then the three CREATE statements; every
\* statement is DDL and is committed as it runs.
CreateDatabase(s) ==
    LET d  == DropTableIfExists(
                DropTableIfExists(
                  DropTableIfExists(s, "products"), "categories"), "ratings")
        c1 == CreateTable(d, "categories")
        c2 == IF c1.ok THEN CreateTable(c1.store, "products") ELSE c1
        c3 == IF c2.ok THEN CreateTable(c2.store, "ratings") ELSE c2
    IN  c3

\* INSERT OR IGNORE INTO categories (name): name is UNIQUE
InsertCategory_NoUnique(s, name) ==
    [s EXCEPT !.categories = @ \cup {[id |-> s.seq + 1, name |-> name]},
              !.seq = @ + 1]

InsertCategory(s, name) ==
    IF \E c \in s.categories : c.name = name
    THEN s
    ELSE [s EXCEPT !.categories = @ \cup {[id |-> s.seq + 1, name |-> name]},
                   !.seq = @ + 1]

\* SELECT id FROM categories WHERE name = ?  ... fetchone()[0]
SelectCategoryId(s, name) ==
    (CHOOSE c \in s.categories : c.name = name).id

\* INSERT INTO products: id is the primary key
InsertProduct(s, p, cat_id) ==
    IF \E q \in s.products : q.id = p.id
    THEN [store |-> s, ok |-> FALSE]
    ELSE [store |-> [s EXCEPT !.products =
                        @ \cup {[id |-> p.id, category_id |-> cat_id]}],
          ok |-> TRUE]

\* INSERT INTO ratings: product_id is the primary key
InsertRating_Missing(s, p) == [store |-> s, ok |-> TRUE]

InsertRating(s, p) ==
    IF \E r \in s.ratings : r.product_id = p.id
    THEN [store |-> s, ok |-> FALSE]
    ELSE [store |-> [s EXCEPT !.ratings =
                        @ \cup {[product_id |-> p.id,
                                 rate |-> p.rating.rate,
                                 count |-> p.rating.count]}],
          ok |-> TRUE]

\* The body of insert_data's loop for one record.  A failing statement is
\* undone alone; the statements before it stay in the open transaction.
InsertRecord(s, p) ==
    LET s1     == InsertCategory(s, p.category)
        cat_id == SelectCategoryId(s1, p.category)
        r2     == InsertProduct(s1, p, cat_id)
    IN  IF r2.ok THEN InsertRating(r2.store, p) ELSE r2

\* insert_data's loop from record i on; stops at the first exception
RECURSIVE LoadRecords(_, _, _)
LoadRecords(s, products, i) ==
    IF i > Len(products)
    THEN [store |-> s, ok |-> TRUE]
    ELSE LET r == InsertRecord(s, products[i])
         IN  IF r.ok THEN LoadRecords(r.store, products, i + 1) ELSE r

\* conn.commit() after the loop: reached only when no statement raised
Commit_PerRecord(committed, r) == r.store

Commit(committed, r) == IF r.ok THEN r.store ELSE committed

\* ------------------------------------------------------------------------
\* The queries of analytics
\* ------------------------------------------------------------------------
\* products p JOIN categories cat ON p.category_id = cat.id, GROUP BY cat.id
GroupIds(s) ==
    { c.id : c \in { c \in s.categories :
                       \E p \in s.products : p.category_id = c.id } }

CategoryName(s, cid) == (CHOOSE c \in s.categories : c.id = cid).name

\* ratings r JOIN products p ON r.product_id = p.id, restricted to a category
RatingsOfCategory(s, cid) ==
    { r \in s.ratings :
        \E p \in s.products : r.product_id = p.id /\ p.category_id = cid }

\* Query 1: (cat.name, COUNT(p.id)) per category, in category id order
Query1_AllProducts(s) ==
    LET ids == SortedSeq(GroupIds(s))
    IN  [ i \in 1..Len(ids) |->
            [name  |-> CategoryName(s, ids[i]),
             total |-> Cardinality(s.products)] ]

Query1(s) ==
    LET ids == SortedSeq(GroupIds(s))
    IN  [ i \in 1..Len(ids) |->
            [name  |-> CategoryName(s, ids[i]),
             total |-> Cardinality({ p \in s.products :
                                       p.category_id = ids[i] })] ]

\* ratings JOIN products JOIN categories GROUP BY cat.id: (name, SUM(r.count))
SalesGroups(s) ==
    { cid \in GroupIds(s) : RatingsOfCategory(s, cid) # {} }

SalesRow(s, cid) ==
    [name |-> CategoryName(s, cid), total |-> SumCount(RatingsOfCategory(s, cid))]

\* Query 2: ORDER BY SUM(r.count) DESC LIMIT 1.  The rows fetchone() may
\* return: among equal sums the order is not defined.
Query2_Ascending(s) ==
    { SalesRow(s, cid) : cid \in
        { c \in SalesGroups(s) :
            \A d \in SalesGroups(s) : SalesRow(s, c).total <= SalesRow(s, d).total } }

Query2(s) ==
    { SalesRow(s, cid) : cid \in
        { c \in SalesGroups(s) :
            \A d \in SalesGroups(s) : SalesRow(s, c).total >= SalesRow(s, d).total } }

\* Query 4: the correlated subquery AVG(r2.rate) over the product's category
AboveAverage_Global(s, p, r) ==
    LET R == { r2 \in s.ratings : \E p2 \in s.products : r2.product_id = p2.id }
    IN  R # {} /\ r.rate * Cardinality(R) > SumRate(R)

AboveAverage(s, p, r) ==
    LET R == RatingsOfCategory(s, p.category_id)
    IN  R # {} /\ r.rate * Cardinality(R) > SumRate(R)

Query4(s) ==
    { [id       |-> t[1].id,
       category |-> t[2].name,
       rate     |-> t[3].rate,
       avgSum   |-> SumRate(RatingsOfCategory(s, t[1].category_id)),
       avgN     |-> Cardinality(RatingsOfCategory(s, t[1].category_id))] :
      t \in { t \in s.products \X s.categories \X s.ratings :
                /\ t[1].category_id = t[2].id
                /\ t[1].id = t[3].product_id
                /\ AboveAverage(s, t[1], t[3]) } }

\* ------------------------------------------------------------------------
\* fetch_data and main's empty check
\* ------------------------------------------------------------------------
\* the parsed body on success; [] on a transport error or error status
FetchData(outcome, body) == IF outcome = "ok" THEN body ELSE <<>>

\* "if not data"
IsEmptyData_Never(d) == FALSE

IsEmptyData_Inverted(d) == d # <<>>

IsEmptyData(d) == d = <<>>

ChartFiles ==
    << "bar_products_per_category.png", "pie_sales_by_category.png",
       "bar_top5_products.png" >>

NoOutput == [printed |-> FALSE, q1 |-> <<>>, q2 |-> {}, q4 |-> {}]

\* A store an earlier run can have left behind
PriorData ==
    << [id |-> 2, category |-> "B", rating |-> [rate |-> 4, count |-> 2]],
       [id |-> 1, category |-> "A", rating |-> [rate |-> 5, count |-> 1]] >>

PriorStores ==
    { NoTables,
      CreateDatabase(NoTables).store,
      LoadRecords(CreateDatabase(NoTables).store, PriorData, 1).store }

\* ------------------------------------------------------------------------
\* State
\* ------------------------------------------------------------------------
VARIABLES
    pc,           \* position of main
    data,         \* what fetch_data returned
    fetchOutcome, \* "ok" or "error"
    disk,         \* the committed contents of fakestore_advanced.db
    disk0,        \* the contents before the run
    work,         \* the connection's view, uncommitted rows included
    connState,    \* "unopened", "open", "closed", "abandoned"
    opens,        \* number of sqlite3.connect calls
    steps,        \* the steps main has entered, in order
    err,          \* the exception raised, "none" if none
    noDataMsg,    \* "No data to process." was printed
    out,          \* what analytics printed
    charts        \* the image files written

vars == << pc, data, fetchOutcome, disk, disk0, work, connState, opens, steps,
           err, noDataMsg, out, charts >>

Init ==
    /\ pc = "start"
    /\ data = <<>>
    /\ fetchOutcome = "none"
    /\ disk \in PriorStores
    /\ disk0 = disk
    /\ work = disk
    /\ connState = "unopened"
    /\ opens = 0
    /\ steps = <<>>
    /\ err = "none"
    /\ noDataMsg = FALSE
    /\ out = NoOutput
    /\ charts = {}

\* data = fetch_data()
Fetch ==
    /\ pc = "start"
    /\ \E outcome \in {"ok", "error"}, body \in Inputs :
         /\ fetchOutcome' = outcome
         /\ data' = FetchData(outcome, body)
    /\ pc' = "fetched"
    /\ UNCHANGED << disk, disk0, work, connState, opens, steps, err, noDataMsg,
                    out, charts >>

\* if not data: print; return
NoData ==
    /\ pc = "fetched"
    /\ IsEmptyData(data)
    /\ noDataMsg' = TRUE
    /\ pc' = "done"
    /\ UNCHANGED << data, fetchOutcome, disk, disk0, work, connState, opens,
                    steps, err, out, charts >>

\* conn = sqlite3.connect(...)
Connect ==
    /\ pc = "fetched"
    /\ ~IsEmptyData(data)
    /\ connState' = "open"
    /\ opens' = opens + 1
    /\ work' = disk
    /\ pc' = "connected"
    /\ UNCHANGED << data, fetchOutcome, disk, disk0, steps, err, noDataMsg,
                    out, charts >>

\* create_database(conn)
CreateDatabaseStep ==
    /\ pc = "connected"
    /\ LET r == CreateDatabase(disk)
       IN  /\ disk' = r.store
           /\ work' = r.store
           /\ pc' = IF r.ok THEN "created" ELSE "raised"
           /\ err' = IF r.ok THEN err ELSE "OperationalError"
    /\ steps' = Append(steps, "init")
    /\ UNCHANGED << data, fetchOutcome, disk0, connState, opens, noDataMsg,
                    out, charts >>

\* insert_data(conn, data)
InsertData ==
    /\ pc = "created"
    /\ LET r == LoadRecords(work, data, 1)
       IN  /\ work' = r.store
           /\ disk' = Commit(disk, r)
           /\ pc' = IF r.ok THEN "loaded" ELSE "raised"
           /\ err' = IF r.ok THEN err ELSE "IntegrityError"
    /\ steps' = Append(steps, "load")
    /\ UNCHANGED << data, fetchOutcome, disk0, connState, opens, noDataMsg,
                    out, charts >>

\* analytics(conn): the first print can fail on a console that cannot encode
\* it; result[0] fails when query 2 has no row.
Analytics ==
    /\ pc = "loaded"
    /\ \E consoleOk \in BOOLEAN, top \in Query2(work) \cup {NoOutput} :
         /\ (top = NoOutput) <=> (Query2(work) = {})
         /\ out' = IF ~consoleOk THEN out
                   ELSE IF top = NoOutput
                        THEN [out EXCEPT !.q1 = Query1(work)]
                        ELSE [printed |-> TRUE, q1 |-> Query1(work),
                              q2 |-> {top}, q4 |-> Query4(work)]
         /\ pc' = IF consoleOk /\ top # NoOutput THEN "analysed" ELSE "raised"
         /\ err' = IF ~consoleOk THEN "UnicodeEncodeError"
                   ELSE IF top = NoOutput THEN "TypeError" ELSE err
    /\ steps' = Append(steps, "analytics")
    /\ UNCHANGED << data, fetchOutcome, disk, disk0, work, connState, opens,
                    noDataMsg, charts >>

\* plot_graphs(conn): k of the three savefig calls succeed
PlotGraphs ==
    /\ pc = "analysed"
    /\ \E k \in 0..Len(ChartFiles) :
         /\ charts' = { ChartFiles[i] : i \in 1..k }
         /\ pc' = IF k = Len(ChartFiles) THEN "plotted" ELSE "raised"
         /\ err' = IF k = Len(ChartFiles) THEN err ELSE "OSError"
    /\ steps' = Append(steps, "render")
    /\ UNCHANGED << data, fetchOutcome, disk, disk0, work, connState, opens,
                    noDataMsg, out >>

\* conn.close()
Close ==
    /\ pc = "plotted"
    /\ connState' = "closed"
    /\ pc' = "done"
    /\ UNCHANGED << data, fetchOutcome, disk, disk0, work, opens, steps, err,
                    noDataMsg, out, charts >>

\* An exception leaves main uncaught: nothing after the failing call runs,
\* and the open transaction is never committed.
Abort ==
    /\ pc = "raised"
    /\ connState' = "abandoned"
    /\ work' = disk
    /\ pc' = "failed"
    /\ UNCHANGED << data, fetchOutcome, disk, disk0, opens, steps, err,
                    noDataMsg, out, charts >>

Next ==
    \/ Fetch
    \/ NoData
    \/ Connect
    \/ CreateDatabaseStep
    \/ InsertData
    \/ Analytics
    \/ PlotGraphs
    \/ Close
    \/ Abort

Spec == Init /\ [][Next]_vars

\* ------------------------------------------------------------------------
\* Properties.  The expected values are computed from the input records
\* (data), the observed ones from the store and from what was printed.
\* ------------------------------------------------------------------------
Terminated == pc \in {"done", "failed"}

PastLoad == "load" \in Range(steps)

LoadSucceeded == PastLoad /\ err # "IntegrityError"

DistinctIds(d) == \A i, j \in DOMAIN d : i # j => d[i].id # d[j].id

InputCategories == { data[i].category : i \in DOMAIN data }

InputOfCategory(name) == { i \in DOMAIN data : data[i].category = name }

RECURSIVE InputSumCount(_)
InputSumCount(I) ==
    IF I = {} THEN 0
    ELSE LET i == CHOOSE x \in I : TRUE
         IN  data[i].rating.count + InputSumCount(I \ {i})

RECURSIVE InputSumRate(_)
InputSumRate(I) ==
    IF I = {} THEN 0
    ELSE LET i == CHOOSE x \in I : TRUE
         IN  data[i].rating.rate + InputSumRate(I \ {i})

RECURSIVE SumTotals(_)
SumTotals(rows) ==
    IF rows = <<>> THEN 0 ELSE Head(rows).total + SumTotals(Tail(rows))

IsPrefix(s, t) == Len(s) <= Len(t) /\ \A i \in 1..Len(s) : s[i] = t[i]

\* C1: after create_database and a successful insert_data, every product row
\* has exactly one rating row with its id, and every rating row belongs to
\* exactly one product row.
C1_OneToOne ==
    LoadSucceeded =>
        /\ \A p \in disk.products :
             Cardinality({ r \in disk.ratings : r.product_id = p.id }) = 1
        /\ \A r \in disk.ratings :
             Cardinality({ p \in disk.products : p.id = r.product_id }) = 1
        /\ { p.id : p \in disk.products } = { data[i].id : i \in DOMAIN data }

C1_Witness ==
    /\ LoadSucceeded
    /\ Cardinality(disk.products) = 3
    /\ Cardinality(disk.ratings) = 3

\* C2: after a load into fresh tables the categories table has one row per
\* distinct category string of the input (a repeated category adds no row and
\* raises no error), and every product's category_id is the id of the row
\* named by its category string.
C2_CategoriesDistinct ==
    /\ (PastLoad /\ DistinctIds(data)) => LoadSucceeded
    /\ LoadSucceeded =>
        /\ Cardinality(disk.categories) = Cardinality(InputCategories)
        /\ { c.name : c \in disk.categories } = InputCategories
        /\ \A i \in DOMAIN data :
             \E p \in disk.products, c \in disk.categories :
                /\ p.id = data[i].id
                /\ p.category_id = c.id
                /\ c.name = data[i].category
        /\ \A p \in disk.products :
             Cardinality({ c \in disk.categories : c.id = p.category_id }) = 1

C2_Witness ==
    /\ LoadSucceeded
    /\ Len(data) = 3
    /\ data[1].category = data[3].category
    /\ data[1].category # data[2].category
    /\ Cardinality(disk.categories) = 2

\* C3: query 1 returns one row per category of the input, the product counts
\* sum to the number of input records, and each row's count is the number of
\* input records with that category.
C3_CategorySummary ==
    out.printed =>
        /\ Len(out.q1) = Cardinality(InputCategories)
        /\ SumTotals(out.q1) = Len(data)
        /\ \A name \in InputCategories :
             /\ Cardinality({ i \in DOMAIN out.q1 : out.q1[i].name = name }) = 1
             /\ \E i \in DOMAIN out.q1 :
                  /\ out.q1[i].name = name
                  /\ out.q1[i].total = Cardinality(InputOfCategory(name))

C3_Witness ==
    /\ out.printed
    /\ Len(data) = 3
    /\ Len(out.q1) = 2
    /\ out.q1[1].total = 2
    /\ out.q1[2].total = 1

\* C4: query 4 returns exactly the products whose rating is strictly above the
\* average rating of the input records of their own category; a product at
\* its category's average, and so the only product of a category, is not
\* returned.
InputAboveAverage(i) ==
    LET I == InputOfCategory(data[i].category)
    IN  data[i].rating.rate * Cardinality(I) > InputSumRate(I)

C4_AboveCategoryAverage ==
    out.printed =>
        /\ { row.id : row \in out.q4 } =
             { data[i].id : i \in { j \in DOMAIN data : InputAboveAverage(j) } }
        /\ \A row \in out.q4 :
             \E i \in DOMAIN data :
                /\ data[i].id = row.id
                /\ data[i].category = row.category
                /\ data[i].rating.rate = row.rate
                /\ row.avgN = Cardinality(InputOfCategory(row.category))
                /\ row.avgSum = InputSumRate(InputOfCategory(row.category))
        /\ \A i \in DOMAIN data :
             Cardinality(InputOfCategory(data[i].category)) = 1 =>
                data[i].id \notin { row.id : row \in out.q4 }

C4_Witness ==
    /\ out.printed
    /\ Len(data) = 3
    /\ \A i \in DOMAIN data : data[i].category = "A"
    /\ { data[i].rating.rate : i \in DOMAIN data } = {3, 4, 5}
    /\ Cardinality(out.q4) = 1
    /\ \A row \in out.q4 : row.rate = 5 /\ row.avgSum = 12 /\ row.avgN = 3

\* C5: query 2 returns one category, whose summed rating count is at least
\* that of every other category, and reports that sum.
C5_TopCategory ==
    out.printed =>
        /\ Cardinality(out.q2) = 1
        /\ \A row \in out.q2 :
             /\ row.name \in InputCategories
             /\ row.total = InputSumCount(InputOfCategory(row.name))
             /\ \A name \in InputCategories :
                  row.total >= InputSumCount(InputOfCategory(name))

C5_Witness ==
    /\ out.printed
    /\ Cardinality(InputCategories) = 2
    /\ InputSumCount(InputOfCategory("A")) = 1
    /\ InputSumCount(InputOfCategory("B")) = 3
    /\ out.q2 = { [name |-> "B", total |-> 3] }

\* C6: when fetch_data returns no records, by an empty array or after an
\* error, the run takes the no-data path: the store is never opened and no
\* initialize, load, analytics or render step runs.
C6_NoDataPath ==
    (pc # "start" /\ data = <<>>) =>
        /\ pc \in {"fetched", "done"}
        /\ pc = "done" => noDataMsg
        /\ steps = <<>>
        /\ opens = 0
        /\ connState = "unopened"
        /\ out = NoOutput
        /\ charts = {}
        /\ err = "none"

C6_Witness ==
    /\ pc = "done"
    /\ fetchOutcome = "error"
    /\ data = <<>>
    /\ noDataMsg

C8_LoadAllOrNothing ==
    (PastLoad /\ ~DistinctIds(data)) =>
        /\ pc \in {"raised", "failed"}
        /\ err = "IntegrityError"
        /\ disk = EmptyTables
        /\ steps = << "init", "load" >>
        /\ out = NoOutput
        /\ charts = {}
        /\ pc = "failed" => work = disk

C8_Witness ==
    /\ pc = "failed"
    /\ err = "IntegrityError"
    /\ Len(data) = 3
    /\ data[1].id # data[2].id
    /\ data[3].id = data[1].id
    /\ disk = EmptyTables

\* C9: from any store contents create_database leaves the three tables, all
\* empty, and a second create_database right after leaves the same state.
C9_SchemaInitIdempotent ==
    /\ pc = "connected" =>
         LET once  == CreateDatabase(disk)
             twice == CreateDatabase(once.store)
         IN  /\ once.ok
             /\ once.store = EmptyTables
             /\ twice.ok
             /\ twice.store = once.store
    /\ pc = "created" =>
         /\ disk = EmptyTables
         /\ CreateDatabase(disk).ok
         /\ CreateDatabase(disk).store = disk

C9_Witness ==
    /\ pc = "created"
    /\ disk0.products # {}
    /\ disk0.categories # {}
    /\ disk = EmptyTables

\* C10: a run that opens the store opens it once, runs initialize, load,
\* analytics, render in that order without repeating one, and has closed the
\* store when it ends, on the failing paths too.
C10_ClosedOnEveryPath ==
    /\ opens <= 1
    /\ IsPrefix(steps, << "init", "load", "analytics", "render" >>)
    /\ (Terminated /\ opens > 0) => connState = "closed"

====
